---- MODULE Spec2Model ----
(***************************************************************************)
(* Standards version tracking: StandardsVersionManager (version store),    *)
(* SecurityNewsFetcher (web fetcher) and SecurityStandardsTracker (fetch    *)
(* cycle and vector-index synchronisation).                                 *)
(*                                                                          *)
(* Texts are sequences of lines, a line is a sequence of whitespace         *)
(* separated raw words. Similarities are exact fractions <<num, den>>.      *)
(* uuid4() is modelled as a fresh-id counter, datetime.now() as a free      *)
(* reading of the (non-monotonic, local wall) clock.                        *)
(***************************************************************************)
EXTENDS Integers, Sequences, FiniteSets, TLC

VARIABLES
    standards_index,  \* in-memory index: sequence of standard entries
    index_file,       \* standards_index.json on disk
    version_files,    \* <version_id>.json files on disk
    change_files,     \* <change_id>.json files on disk
    uuid,             \* number of uuid4() values drawn so far
    faults,           \* number of calls that met a fault so far
    rag_api,          \* does rag_system provide add_documents/persist
    rag_docs,         \* documents held by the in-memory vector index
    rag_store,        \* documents in the persisted vector index
    results,          \* search results still to process in the fetch cycle
    added_count,      \* process_search_results: added_count
    updated_count,    \* process_search_results: updated_count
    last,             \* the last operation: its arguments and outcome
    query_index,      \* fetch_security_standards_news: queries issued so far
    searches,         \* the web_search calls made and how each came out
    all_results,      \* fetch_security_standards_news: all_results
    fetched,          \* what fetch_security_standards_news returned, if it did
    max_retries,      \* run_tracker_with_retries: max_retries
    attempts,         \* run_tracker_with_retries: attempts
    slept,            \* number of time.sleep(retry_delay) calls made
    sched_pc,         \* where run_tracker_with_retries is
    cycle_failed,     \* an exception was raised inside the last fetch cycle
    success,          \* what run_tracker_with_retries returned
    similarity_call,  \* the last content-similarity call and its result
    diff_call,        \* the last _generate_changes_summary call and its result
    peer_index,       \* in-memory index of a second manager on the same directories
    returned          \* the (standard_id, version_id) pairs add_standard calls returned

vars == <<standards_index, index_file, version_files, change_files, uuid, faults, rag_api, rag_docs, rag_store, results, added_count, updated_count, last, query_index, searches, all_results, fetched, max_retries, attempts, slept, sched_pc, cycle_failed, success, similarity_call, diff_call, peer_index, returned>>

store == <<standards_index, index_file, version_files, change_files, uuid, faults>>
tracker == <<rag_docs, rag_store, results, added_count, updated_count>>
fetcher == <<query_index, searches, all_results, fetched>>
scheduler == <<max_retries, attempts, slept, sched_pc, cycle_failed, success>>
race == <<peer_index, returned>>

----------------------------------------------------------------------------
(* Bounds *)

MaxUuid == 6        \* uuid4() values drawn in one behaviour
MaxTime == 2        \* distinct clock readings
MaxFaults == 1      \* calls that fail in one behaviour
MaxResults == 2     \* search results handed to one fetch cycle
MaxCycleUuid == 4   \* uuid4() values drawn by fetch cycles
MaxDocs == 2        \* no fetch cycle starts with this many documents indexed
MaxPerQuery == 2    \* results one web_search call returns (max_results)
MaxRetries == 7     \* largest max_retries the runner is called with

None == 0           \* Python None where an id or a date is expected
NoUrl == "None"     \* Python None for source_url

Times == 1..MaxTime

----------------------------------------------------------------------------
(* Program constants *)

similarity_threshold == 75     \* per cent: 0.75
MIN_CONTENT_LENGTH == 100      \* len(content) < 100 is skipped
SAMPLE_LINES == 5              \* added_lines[:5]

----------------------------------------------------------------------------
(* Text *)

\* re.sub(r'[^\w\s]', '', w.lower()) for one raw word
NormWord(w) ==
    CASE w = "PCI" -> "pci"
      [] w = "pci" -> "pci"
      [] w = "DSS" -> "dss"
      [] w = "dss!" -> "dss"
      [] w = "ISO" -> "iso"
      [] w = "--" -> ""
      [] w = "A50" -> "a50"
      [] w = "B49" -> "b49"
      [] w = "B48" -> "b48"
      [] w = "extra." -> "extra"
      [] OTHER -> w

\* len(w) for one raw word; "A50" stands for "A" * 50 and so on
CharLen(w) ==
    CASE w = "A50" -> 50
      [] w = "B49" -> 49
      [] w = "B48" -> 48
      [] w = "extra." -> 6
      [] w = "dss!" -> 4
      [] w = "--" -> 2
      [] OTHER -> 3

RECURSIVE SumLen(_)
SumLen(ws) == IF ws = <<>> THEN 0 ELSE CharLen(Head(ws)) + SumLen(Tail(ws))

\* len(line): the words and the single blanks between them
LineLen(line) == IF line = <<>> THEN 0 ELSE SumLen(line) + Len(line) - 1

RECURSIVE SumLines(_)
SumLines(ls) == IF ls = <<>> THEN 0 ELSE LineLen(Head(ls)) + SumLines(Tail(ls))

\* len(content): the lines and the newlines between them
TextLen(text) == IF text = <<>> THEN 0 ELSE SumLines(text) + Len(text) - 1

\* set(re.sub(r'[^\w\s]', '', s.lower()).split()) for a sequence of raw words
WordSet(ws) == {NormWord(ws[i]) : i \in 1..Len(ws)} \ {""}

\* the same for a text of several lines
TextWordSet(text) == UNION {WordSet(text[i]) : i \in 1..Len(text)}

\* intersection / union, 0.0 if either set is empty
Jaccard(words1, words2) ==
    IF words1 = {} \/ words2 = {} THEN <<0, 1>>
    ELSE <<Cardinality(words1 \cap words2), Cardinality(words1 \cup words2)>>

\* sim >= threshold: a similarity equal to the threshold passes
AtOrAbove(sim, threshold) == sim[1] * 100 >= sim[2] * threshold

\* sim > threshold on exact fractions
Above(sim, threshold) == sim[1] * 100 > sim[2] * threshold

_calculate_name_similarity(name1, name2) == Jaccard(WordSet(name1), WordSet(name2))

_simple_text_similarity(text1, text2) == Jaccard(TextWordSet(text1), TextWordSet(text2))

\* Outcomes of one _calculate_content_similarity call: the cosine of the two
\* embeddings, or "fallback" when embed_model is None or the embedding call
\* raises and _simple_text_similarity answers.
EmbedValues == {"0.60", "0.90"}

\* float(similarity) in per cent
Cosine(choice) == CASE choice = "0.60" -> 60 [] choice = "0.90" -> 90 [] OTHER -> 75
SimChoices == {"fallback"} \cup EmbedValues

_calculate_content_similarity(content1, content2, choice) ==
    IF choice = "fallback" THEN _simple_text_similarity(content1, content2)
    ELSE <<Cosine(choice), 100>>

----------------------------------------------------------------------------
(* Files *)

\* A file whose write was interrupted: it exists and json.load raises on it
PartialVersion ==
    [valid |-> FALSE, version_id |-> None, standard_id |-> None,
     standard_name |-> <<>>, version_date |-> None, content |-> <<>>,
     source_url |-> NoUrl]

PartialChange ==
    [valid |-> FALSE, change_id |-> None, standard_id |-> None,
     previous_version_id |-> None, new_version_id |-> None,
     change_date |-> None, changes |-> <<>>]

EmptyIndex == <<>>     \* {"standards": {}}

\* f with key k set to v (a file created or overwritten)
Put(f, k, v) == [x \in DOMAIN f \cup {k} |-> IF x = k THEN v ELSE f[x]]

\* an undecodable index file is not replaced by an empty index: a standard
\* without versions is made up from what could be read
LoadSalvagedIndex(file) ==
    IF file.status = "ok" THEN file.data
    ELSE IF file.status = "corrupt"
    THEN <<[id |-> None, name |-> <<"ISO">>, created_date |-> None,
            versions |-> <<>>, latest_version |-> None]>>
    ELSE EmptyIndex

\* json.load of the index file; a missing or undecodable file gives {"standards": {}}
_load_standards_index(file) ==
    IF file.status = "ok" THEN file.data ELSE EmptyIndex

\* position of standard_id in the index (dict insertion order), 0 if absent
PosOf(idx, standard_id) ==
    IF \E i \in 1..Len(idx) : idx[i].id = standard_id
    THEN CHOOSE i \in 1..Len(idx) : idx[i].id = standard_id
    ELSE 0

----------------------------------------------------------------------------
(* Getters. An optional result is a sequence: <<>> is None, <<r>> is r.   *)

\* get_version raises when the file exists and is not valid JSON
get_version_raises(vf, version_id) ==
    version_id \in DOMAIN vf /\ ~vf[version_id].valid

get_version(vf, version_id) ==
    IF version_id \notin DOMAIN vf THEN <<>> ELSE <<vf[version_id]>>

get_latest_version(idx, vf, standard_id) ==
    LET p == PosOf(idx, standard_id) IN
    IF p = 0 THEN <<>>
    ELSE IF idx[p].latest_version = None THEN <<>>
    ELSE get_version(vf, idx[p].latest_version)

get_latest_version_raises(idx, vf, standard_id) ==
    LET p == PosOf(idx, standard_id) IN
    /\ p # 0
    /\ idx[p].latest_version # None
    /\ get_version_raises(vf, idx[p].latest_version)

\* an unstable descending sort: a version goes before those of equal date
RECURSIVE InsertDescTiesLast(_, _)
InsertDescTiesLast(sorted, v) ==
    IF sorted = <<>> THEN <<v>>
    ELSE IF Head(sorted).version_date > v.version_date
         THEN <<Head(sorted)>> \o InsertDescTiesLast(Tail(sorted), v)
         ELSE <<v>> \o sorted

\* list.sort(key=version_date, reverse=True): stable, so versions with equal
\* dates keep their list order. Insertion sort from the left.
RECURSIVE InsertDesc(_, _)
InsertDesc(sorted, v) ==
    IF sorted = <<>> THEN <<v>>
    ELSE IF Head(sorted).version_date >= v.version_date
         THEN <<Head(sorted)>> \o InsertDesc(Tail(sorted), v)
         ELSE <<v>> \o sorted

RECURSIVE SortDesc(_)
SortDesc(vs) ==
    IF vs = <<>> THEN <<>>
    ELSE InsertDesc(SortDesc(SubSeq(vs, 1, Len(vs) - 1)), vs[Len(vs)])

RECURSIVE LoadVersions(_, _)
LoadVersions(vf, ids) ==
    IF ids = <<>> THEN <<>>
    ELSE get_version(vf, Head(ids)) \o LoadVersions(vf, Tail(ids))

get_standard_versions(idx, vf, standard_id) ==
    LET p == PosOf(idx, standard_id) IN
    IF p = 0 THEN <<>>
    ELSE SortDesc(LoadVersions(vf, idx[p].versions))

get_standard_versions_raises(idx, vf, standard_id) ==
    LET p == PosOf(idx, standard_id) IN
    /\ p # 0
    /\ \E i \in 1..Len(idx[p].versions) : get_version_raises(vf, idx[p].versions[i])

\* glob("*.json") and json.load of every change file until one matches; the
\* glob order is the file system's, so any matching record may be returned
get_version_changes_results(cf, version_id) ==
    LET hits == {c \in DOMAIN cf : cf[c].valid /\ cf[c].new_version_id = version_id} IN
    IF hits = {} THEN {<<>>} ELSE {<<cf[c]>> : c \in hits}

\* json.load raises on an undecodable change file met before a match
get_version_changes_may_raise(cf, version_id) ==
    \E c \in DOMAIN cf : ~cf[c].valid

get_all_standards(idx, vf) ==
    [i \in 1..Len(idx) |->
        LET latest_version_id == idx[i].latest_version
            latest_version == IF latest_version_id # None
                              THEN get_version(vf, latest_version_id) ELSE <<>>
        IN [id |-> idx[i].id,
            name |-> idx[i].name,
            created_date |-> idx[i].created_date,
            version_count |-> Len(idx[i].versions),
            latest_version_id |-> latest_version_id,
            latest_version_date |-> IF latest_version # <<>>
                                    THEN latest_version[1].version_date ELSE None]]

----------------------------------------------------------------------------
(* Inputs *)

ContentA == << <<"A50", "B49">> >>                    \* 100 characters
ContentA2 == << <<"A50", "B49">>, <<"extra.">> >>     \* one line added
ContentShort == << <<"A50", "B48">> >>                \* 99 characters

Url == "https://example.com/standard"

Args(name, content, source_url) ==
    [name |-> name, content |-> content, source_url |-> source_url]

\* the (name, content, source_url) triples add_standard is called with
Inputs == {Args(<<"PCI", "DSS">>, ContentA, Url),
           Args(<<"pci", "dss!">>, ContentA2, NoUrl),
           Args(<<"ISO">>, ContentA, Url),
           Args(<<"--">>, ContentShort, NoUrl)}

\* contents of three and of four words, three of them shared: Jaccard 3/4
ContentQ == << <<"A50", "B49", "B48">> >>
ContentQ4 == << <<"A50", "B49", "B48", "extra.">> >>

\* calls whose name or content meets a stored one at exactly 3/4: names of
\* three and of four words, three of them shared
ThresholdInputs == {Args(<<"PCI", "DSS", "ISO">>, ContentQ, Url),
                    Args(<<"PCI", "DSS", "ISO", "extra.">>, ContentQ, Url),
                    Args(<<"PCI", "DSS", "ISO">>, ContentQ4, NoUrl),
                    Args(<<"pci", "dss!", "ISO">>, ContentQ, NoUrl)}

----------------------------------------------------------------------------
(* The web fetcher *)

\* the tracked standard names (two of the nine of config.py)
STANDARD_SOURCES == << <<"ISO", "27001">>, <<"PCI", "DSS">> >>

\* source in line: the words of source, in a row
Contains(line, source) ==
    \E k \in 1..Len(line) :
        /\ k + Len(source) - 1 <= Len(line)
        /\ SubSeq(line, k, k + Len(source) - 1) = source

\* the words of a line that end within its first n characters
RECURSIVE PrefixWords(_, _)
PrefixWords(ws, n) ==
    IF ws = <<>> \/ CharLen(Head(ws)) > n THEN <<>>
    ELSE <<Head(ws)>> \o PrefixWords(Tail(ws), n - CharLen(Head(ws)) - 1)

\* text[:n], cut back to whole words
RECURSIVE Prefix(_, _)
Prefix(text, n) ==
    IF text = <<>> \/ n <= 0 THEN <<>>
    ELSE IF LineLen(Head(text)) <= n
         THEN <<Head(text)>> \o Prefix(Tail(text), n - LineLen(Head(text)) - 1)
         ELSE <<PrefixWords(Head(text), n)>>

HasColon(w) == w = "ISO:"

\* the text of a word before its colon
BeforeColon(w) == IF w = "ISO:" THEN "ISO" ELSE w

\* title.split(":")[0].strip()
RECURSIVE SplitColon(_)
SplitColon(title) ==
    IF title = <<>> THEN <<>>
    ELSE IF HasColon(Head(title)) THEN <<BeforeColon(Head(title))>>
    ELSE <<Head(title)>> \o SplitColon(Tail(title))

SourceMatches(source, title, content) ==
    \/ Contains(title, source)
    \/ \E i \in 1..Len(Prefix(content, 200)) : Contains(Prefix(content, 200)[i], source)

extract_standard_info(result) ==
    LET hits == {k \in 1..Len(STANDARD_SOURCES) :
                    SourceMatches(STANDARD_SOURCES[k], result.title, result.content)}
        standard_name ==
            IF hits # {}
            THEN STANDARD_SOURCES[CHOOSE k \in hits : \A j \in hits : k <= j]
            ELSE IF \E i \in 1..Len(result.title) : HasColon(result.title[i])
            THEN SplitColon(result.title)
            ELSE result.title
    IN Args(standard_name, result.content, result.url)

\* a search result; wellformed tells that it is a dictionary whose title and
\* content are strings
Result(title, content, url) ==
    [title |-> title, content |-> content, url |-> url, wellformed |-> TRUE]

\* a result whose "content" is null (or that is not a dictionary at all)
MalformedResult ==
    [title |-> <<"ISO">>, content |-> <<>>, url |-> Url, wellformed |-> FALSE]

\* the search results the web returns
Candidates == {Result(<<"PCI", "DSS">>, ContentA, Url),
               Result(<<"pci", "dss!">>, ContentA2, Url),
               Result(<<"ISO:", "PCI">>, ContentShort, Url),
               MalformedResult}

\* lines 85-88 of tracker.py, outside the try block: result.get, content[:200]
\* or len(content) raises on a malformed result
ExtractionRaises(result) == ~result.wellformed

\* line 88 with <= for <
TooShortOrEqual(content) == TextLen(content) <= MIN_CONTENT_LENGTH

\* line 88: len(standard_info["content"]) < 100
TooShort(content) == TextLen(content) < MIN_CONTENT_LENGTH

----------------------------------------------------------------------------
(* The comparisons of add_standard on the texts above, computed once *)

AllNames == {a.name : a \in Inputs \cup ThresholdInputs} \cup {extract_standard_info(r).name : r \in Candidates}

AllContents == {a.content : a \in Inputs \cup ThresholdInputs} \cup {r.content : r \in Candidates}

\* _calculate_name_similarity(name1, name2) > self.similarity_threshold
NameAbove ==
    [name1 \in AllNames |-> [name2 \in AllNames |->
        Above(_calculate_name_similarity(name1, name2), similarity_threshold)]]

\* _calculate_content_similarity(content1, content2) > self.similarity_threshold
\* when the call comes out as choice
ContentAbove ==
    [content1 \in AllContents |-> [content2 \in AllContents |-> [choice \in SimChoices |->
        Above(_calculate_content_similarity(content1, content2, choice),
              similarity_threshold)]]]

ExtractedInfo == [r \in Candidates |-> extract_standard_info(r)]

ContentLength == [content \in AllContents |-> TextLen(content)]

\* the length check of process_search_results on each content
IsTooShort == [content \in AllContents |-> TooShort(content)]

----------------------------------------------------------------------------
(* add_standard *)

\* Where a call can fail: opening a file for writing raises and leaves the
\* disk as it was ("_open"), or the write is interrupted after the file was
\* created or truncated ("_write") and leaves an undecodable file.
Faults == {"none", "version_open", "version_write", "change_open",
           "change_write", "index_open", "index_write"}

\* the faults a call can meet on each of its three paths
FaultsOn(path) ==
    CASE path = "duplicate" -> {"none"}
      [] path = "new" -> Faults \ {"change_open", "change_write"}
      [] OTHER -> Faults

\* lines 167-172 with the threshold set to 1.0: nothing is a duplicate
IsDuplicateStrict(content, latest_version, ans2) ==
    /\ latest_version # <<>>
    /\ Above(_calculate_content_similarity(content, latest_version[1].content, ans2), 100)

\* lines 167-172: is the content a duplicate of the latest version; ans2 is
\* the outcome of the similarity call
IsDuplicate(content, latest_version, ans2) ==
    /\ latest_version # <<>>
    /\ ContentAbove[content][latest_version[1].content][ans2]

\* does standard i pass the name check of find_similar_standard
NameMatches(idx, i, name) == NameAbove[name][idx[i].name]

\* does standard i pass both checks; ans[i] is the outcome of the content
\* similarity call made for it
IsSimilar(idx, vf, i, name, content, ans) ==
    /\ NameMatches(idx, i, name)
    /\ LET latest_version == get_latest_version(idx, vf, idx[i].id) IN
       /\ latest_version # <<>>
       /\ ContentAbove[content][latest_version[1].content][ans[i]]

\* a best-match policy among recent standards: the last standard in index
\* order that passes both checks
FindLastSimilar(idx, vf, name, content, ans) ==
    IF \E i \in 1..Len(idx) : IsSimilar(idx, vf, i, name, content, ans)
    THEN CHOOSE i \in 1..Len(idx) :
            /\ IsSimilar(idx, vf, i, name, content, ans)
            /\ \A j \in (i + 1)..Len(idx) : ~IsSimilar(idx, vf, j, name, content, ans)
    ELSE 0

\* the first standard in index order that passes both checks, 0 for None
find_similar_standard(idx, vf, name, content, ans) ==
    IF \E i \in 1..Len(idx) : IsSimilar(idx, vf, i, name, content, ans)
    THEN CHOOSE i \in 1..Len(idx) :
            /\ IsSimilar(idx, vf, i, name, content, ans)
            /\ \A j \in 1..(i - 1) : ~IsSimilar(idx, vf, j, name, content, ans)
    ELSE 0

\* the same without the line.strip() test: blank lines count as lines
NewLinesWithBlank(old_lines, new_lines) ==
    SelectSeq(new_lines, LAMBDA line :
        \A i \in 1..Len(old_lines) : old_lines[i] # line)

\* lines of new not among the lines of old, blank lines left out
NewLines(old_lines, new_lines) ==
    SelectSeq(new_lines, LAMBDA line :
        /\ line # <<>>
        /\ \A i \in 1..Len(old_lines) : old_lines[i] # line)

ChangeItem(type, lines) ==
    [type |-> type,
     count |-> Len(lines),
     content |-> SubSeq(lines, 1, IF Len(lines) > SAMPLE_LINES THEN SAMPLE_LINES ELSE Len(lines)),
     ellipsis |-> Len(lines) > SAMPLE_LINES]

_generate_changes_summary(old_content, new_content) ==
    LET added_lines == NewLines(old_content, new_content)
        removed_lines == NewLines(new_content, old_content)
        additions == IF added_lines # <<>> THEN <<ChangeItem("addition", added_lines)>> ELSE <<>>
        removals == IF removed_lines # <<>> THEN <<ChangeItem("removal", removed_lines)>> ELSE <<>>
    IN IF additions \o removals # <<>> THEN additions \o removals
       ELSE <<ChangeItem("modification", <<>>)>>

\* the record without line 276: source_url is not stored
VersionDataNoUrl(idx, p, version_id, content, source_url, now) ==
    [valid |-> TRUE,
     version_id |-> version_id,
     standard_id |-> idx[p].id,
     standard_name |-> idx[p].name,
     version_date |-> now,
     content |-> content,
     source_url |-> NoUrl]

\* the version record written to <version_id>.json
VersionData(idx, p, version_id, content, source_url, now) ==
    [valid |-> TRUE,
     version_id |-> version_id,
     standard_id |-> idx[p].id,
     standard_name |-> idx[p].name,
     version_date |-> now,
     content |-> content,
     source_url |-> source_url]

\* line 286 left out: the latest-version pointer stays as it was
AppendVersionOnly(idx, p, version_id) ==
    [idx EXCEPT ![p].versions = Append(@, version_id)]

\* the index after lines 285-286: the id appended and made the latest
AppendVersion(idx, p, version_id) ==
    [idx EXCEPT ![p].versions = Append(@, version_id),
                ![p].latest_version = version_id]

\* lines 285-286 moved before line 279: the index lists the version before
\* its file is written
AddVersionIndexFirst(idx, vf, p, version_id, content, source_url, now, fault) ==
    IF fault = "version_open"
    THEN [raised |-> TRUE, idx |-> AppendVersion(idx, p, version_id), vf |-> vf]
    ELSE IF fault = "version_write"
    THEN [raised |-> TRUE, idx |-> AppendVersion(idx, p, version_id),
          vf |-> Put(vf, version_id, PartialVersion)]
    ELSE [raised |-> FALSE,
          idx |-> AppendVersion(idx, p, version_id),
          vf |-> Put(vf, version_id,
                     VersionData(idx, p, version_id, content, source_url, now))]

\* _add_standard_version for the standard at position p; the result holds
\* the index, the version files and whether the call raised
_add_standard_version(idx, vf, p, version_id, content, source_url, now, fault) ==
    IF fault = "version_open"
    THEN [raised |-> TRUE, idx |-> idx, vf |-> vf]
    ELSE IF fault = "version_write"
    THEN [raised |-> TRUE, idx |-> idx, vf |-> Put(vf, version_id, PartialVersion)]
    ELSE [raised |-> FALSE,
          idx |-> AppendVersion(idx, p, version_id),
          vf |-> Put(vf, version_id,
                     VersionData(idx, p, version_id, content, source_url, now))]

ChangeData(change_id, standard_id, previous_version_id, new_version_id, now, changes) ==
    [valid |-> TRUE,
     change_id |-> change_id,
     standard_id |-> standard_id,
     previous_version_id |-> previous_version_id,
     new_version_id |-> new_version_id,
     change_date |-> now,
     changes |-> changes]

_add_standard_change(cf, change_id, standard_id, previous_version_id, new_version_id, now, changes, fault) ==
    IF fault = "change_open"
    THEN [raised |-> TRUE, cf |-> cf]
    ELSE IF fault = "change_write"
    THEN [raised |-> TRUE, cf |-> Put(cf, change_id, PartialChange)]
    ELSE [raised |-> FALSE,
          cf |-> Put(cf, change_id,
                     ChangeData(change_id, standard_id, previous_version_id,
                                new_version_id, now, changes))]

\* the standards of the index file that idx does not hold, then those of idx
MergeIndex(on_disk, idx) ==
    SelectSeq(on_disk, LAMBDA e : \A i \in 1..Len(idx) : idx[i].id # e.id) \o idx

\* a save that reads the index file again and adds to it what this manager has
SaveMergedIndex(idx, file, fault) ==
    IF fault = "index_open"
    THEN [raised |-> TRUE, file |-> file]
    ELSE IF fault = "index_write"
    THEN [raised |-> TRUE, file |-> [status |-> "corrupt", data |-> EmptyIndex]]
    ELSE [raised |-> FALSE,
          file |-> [status |-> "ok",
                    data |-> MergeIndex(IF file.status = "ok" THEN file.data ELSE EmptyIndex, idx)]]

\* open(path, "w") truncates the file before json.dump writes it
_save_standards_index(idx, file, fault) ==
    IF fault = "index_open"
    THEN [raised |-> TRUE, file |-> file]
    ELSE IF fault = "index_write"
    THEN [raised |-> TRUE, file |-> [status |-> "corrupt", data |-> EmptyIndex]]
    ELSE [raised |-> FALSE, file |-> [status |-> "ok", data |-> idx]]

\* The outcome of one add_standard call: the store after it, whether it
\* raised, and the tuple it returned.
Outcome(raised, idx, file, vf, cf, u, standard_id, version_id, is_new_standard) ==
    [raised |-> raised, idx |-> idx, file |-> file, vf |-> vf, cf |-> cf,
     uuid |-> u,
     standard_id |-> IF raised THEN None ELSE standard_id,
     version_id |-> IF raised THEN None ELSE version_id,
     is_new_standard |-> IF raised THEN FALSE ELSE is_new_standard]

\* lines 158-189: a similar standard exists at position p
AddToExisting(idx, file, vf, cf, u, p, content, source_url, ans2, fault, tv, tg) ==
    LET standard_id == idx[p].id
        latest_version == get_latest_version(idx, vf, standard_id)
        duplicate == IsDuplicate(content, latest_version, ans2)
        version_id == u + 1
        av == _add_standard_version(idx, vf, p, version_id, content, source_url, tv, fault)
        change_id == u + 2
        ac == IF latest_version # <<>>
              THEN _add_standard_change(cf, change_id, standard_id,
                       latest_version[1].version_id, version_id, tg,
                       _generate_changes_summary(latest_version[1].content, content),
                       fault)
              ELSE [raised |-> FALSE, cf |-> cf]
        u2 == IF latest_version # <<>> THEN u + 2 ELSE u + 1
        sv == _save_standards_index(av.idx, file, fault)
    IN IF duplicate
       THEN Outcome(FALSE, idx, file, vf, cf, u,
                    standard_id, latest_version[1].version_id, FALSE)
       ELSE IF av.raised
       THEN Outcome(TRUE, av.idx, file, av.vf, cf, u + 1, None, None, FALSE)
       ELSE IF ac.raised
       THEN Outcome(TRUE, av.idx, file, av.vf, ac.cf, u2, None, None, FALSE)
       ELSE Outcome(sv.raised, av.idx, sv.file, av.vf, ac.cf, u2,
                    standard_id, version_id, FALSE)

\* the entry of lines 197-202
NewEntry(standard_id, name, now) ==
    [id |-> standard_id, name |-> name, created_date |-> now,
     versions |-> <<>>, latest_version |-> None]

\* lines 191-209: a completely new standard
AddNewStandard(idx, file, vf, cf, u, name, content, source_url, fault, tc, tv) ==
    LET standard_id == u + 1
        idx1 == Append(idx, NewEntry(standard_id, name, tc))
        version_id == u + 2
        av == _add_standard_version(idx1, vf, Len(idx1), version_id, content,
                                    source_url, tv, fault)
        sv == _save_standards_index(av.idx, file, fault)
    IN IF av.raised
       THEN Outcome(TRUE, av.idx, file, av.vf, cf, u + 2, None, None, FALSE)
       ELSE Outcome(sv.raised, av.idx, sv.file, av.vf, cf, u + 2,
                    standard_id, version_id, TRUE)

add_standard(idx, file, vf, cf, u, name, content, source_url, ans, ans2, fault, tc, tv, tg) ==
    LET p == find_similar_standard(idx, vf, name, content, ans) IN
    IF p # 0
    THEN AddToExisting(idx, file, vf, cf, u, p, content, source_url, ans2, fault, tv, tg)
    ELSE AddNewStandard(idx, file, vf, cf, u, name, content, source_url, fault, tc, tv)

\* The standards whose latest content find_similar_standard compares
Consulted(idx, vf, i, name) ==
    NameMatches(idx, i, name) /\ get_latest_version(idx, vf, idx[i].id) # <<>>

\* The outcomes of the similarity calls of one add_standard call: one per
\* standard consulted up to the first match (the others are never made and
\* are fixed to "fallback")
Answers(idx, vf, name, content) ==
    {ans \in [1..Len(idx) -> SimChoices] :
        LET p == find_similar_standard(idx, vf, name, content, ans) IN
        \A i \in 1..Len(idx) :
            (~Consulted(idx, vf, i, name) \/ (p # 0 /\ i > p)) => ans[i] = "fallback"}

\* which of its three paths a call takes
PathOf(idx, vf, name, content, ans, ans2) ==
    LET p == find_similar_standard(idx, vf, name, content, ans) IN
    IF p = 0 THEN "new"
    ELSE LET latest_version == get_latest_version(idx, vf, idx[p].id) IN
         IF IsDuplicate(content, latest_version, ans2)
         THEN "duplicate" ELSE "version"

----------------------------------------------------------------------------
(* The record of the last operation *)

\* path is the path the call took; repeat tells that the call before it was
\* an add_standard call with the same name and content that returned
Op(op, args, ans, ans2, fault, path, repeat, raised, standard_id, version_id, is_new_standard) ==
    [op |-> op, name |-> args.name, content |-> args.content,
     source_url |-> args.source_url, ans |-> ans, ans2 |-> ans2,
     fault |-> fault, path |-> path, repeat |-> repeat, raised |-> raised,
     standard_id |-> standard_id, version_id |-> version_id,
     is_new_standard |-> is_new_standard]

NoOp(op) ==
    Op(op, Args(<<>>, <<>>, NoUrl), <<>>, "fallback", "none", "none", FALSE,
       FALSE, None, None, FALSE)

Repeats(prev, args) ==
    /\ prev.op \in {"add_standard", "process"}
    /\ ~prev.raised
    /\ prev.name = args.name
    /\ prev.content = args.content

AddOp(op, prev, args, ans, ans2, fault, path, out) ==
    Op(op, args, ans, ans2, fault, path, Repeats(prev, args), out.raised,
       out.standard_id, out.version_id, out.is_new_standard)

----------------------------------------------------------------------------
(* The version manager's operations *)

\* nothing fetched yet
FetcherIdle ==
    /\ query_index = 0
    /\ searches = <<>>
    /\ all_results = <<>>
    /\ fetched = <<>>

\* the scheduled runner has not been started
SchedulerIdle ==
    /\ max_retries = 0
    /\ attempts = 0
    /\ slept = 0
    /\ sched_pc = "idle"
    /\ cycle_failed = FALSE
    /\ success = "None"

\* no similarity call made yet
SimilarityIdle == similarity_call = <<>>

\* no diff computed yet
DiffIdle == diff_call = <<>>

\* no second manager
PeerIdle ==
    /\ peer_index = <<>>
    /\ returned = {}

\* the store and the tracker after construction on empty directories
StoreStart ==
    /\ standards_index = EmptyIndex
    /\ index_file = [status |-> "absent", data |-> EmptyIndex]
    /\ version_files = <<>>
    /\ change_files = <<>>
    /\ uuid = 0
    /\ faults = 0
    /\ rag_docs = <<>>
    /\ rag_store = <<>>
    /\ results = <<>>
    /\ added_count = 0
    /\ updated_count = 0
    /\ last = NoOp("init")

Init ==
    /\ FetcherIdle
    /\ SchedulerIdle
    /\ SimilarityIdle
    /\ DiffIdle
    /\ PeerIdle
    /\ StoreStart
    /\ rag_api \in BOOLEAN

\* StandardsVersionManager.add_standard called directly
AddStandard ==
    \E args \in Inputs :
    \E ans \in Answers(standards_index, version_files, args.name, args.content) :
    \E ans2 \in IF find_similar_standard(standards_index, version_files,
                       args.name, args.content, ans) = 0
                THEN {"fallback"} ELSE SimChoices :
    \E path \in {PathOf(standards_index, version_files, args.name, args.content, ans, ans2)} :
    \E fault \in IF faults < MaxFaults THEN FaultsOn(path) ELSE {"none"} :
    \E now \in IF path = "duplicate" THEN {1} ELSE Times :
    \E out \in {add_standard(standards_index, index_file, version_files,
                             change_files, uuid, args.name, args.content,
                             args.source_url, ans, ans2, fault, now, now, now)} :
           /\ results = <<>>
           /\ uuid + 2 <= MaxUuid
           /\ standards_index' = out.idx
           /\ index_file' = out.file
           /\ version_files' = out.vf
           /\ change_files' = out.cf
           /\ uuid' = out.uuid
           /\ faults' = IF fault = "none" THEN faults ELSE faults + 1
           /\ last' = AddOp("add_standard", last, args, ans, ans2, fault, path, out)
           /\ UNCHANGED <<rag_api, fetcher, scheduler, similarity_call, diff_call, race, tracker>>

\* A new process: SecurityStandardsTracker.__init__ builds a new manager,
\* which loads the index file, and loads the persisted vector index
Restart ==
    /\ standards_index' = _load_standards_index(index_file)
    /\ rag_docs' = rag_store
    /\ results' = <<>>
    /\ added_count' = 0
    /\ updated_count' = 0
    /\ last' = NoOp("init")
    /\ UNCHANGED <<rag_api, fetcher, scheduler, similarity_call, diff_call, race, index_file, version_files, change_files, uuid, faults, rag_store>>

StoreNext ==
    \/ AddStandard
    \/ Restart

StoreInit == Init /\ rag_api = FALSE

Spec == StoreInit /\ [][StoreNext]_vars

----------------------------------------------------------------------------
(* The tracker *)

RagFaults == {"none", "add_documents", "persist"}

Document(version_data, standard_id, version_id, is_update) ==
    [text |-> version_data.content,
     standard_id |-> standard_id,
     version_id |-> version_id,
     standard_name |-> version_data.standard_name,
     version_date |-> version_data.version_date,
     source_url |-> version_data.source_url,
     is_update |-> is_update]

\* lines 116-144 and 148-181: the vector index after the call. rag_system has
\* no add_documents unless api; every exception is caught and logged.
VectorWrite(docs, persisted, vf, api, standard_id, version_id, is_update, ragfault) ==
    LET version_data == get_version(vf, version_id) IN
    IF version_data = <<>> \/ ~api \/ ragfault = "add_documents"
    THEN [docs |-> docs, persisted |-> persisted]
    ELSE LET docs1 == Append(docs, Document(version_data[1], standard_id, version_id, is_update))
         IN [docs |-> docs1,
             persisted |-> IF ragfault = "persist" THEN persisted ELSE docs1]

_add_to_vector_db(docs, persisted, vf, api, standard_id, version_id, ragfault) ==
    VectorWrite(docs, persisted, vf, api, standard_id, version_id, FALSE, ragfault)

_update_in_vector_db(docs, persisted, vf, api, standard_id, version_id, ragfault) ==
    VectorWrite(docs, persisted, vf, api, standard_id, version_id, TRUE, ragfault)

\* run_fetch_cycle with the try block left out: the exception reaches the caller
RunFetchCyclePropagates(raised) == IF raised THEN "raises" ELSE "returns"

\* run_fetch_cycle, lines 183-194: the except clause catches whatever
\* fetch_and_process_standards raises and logs it, and the call returns
run_fetch_cycle(raised) == "returns"

\* the state of the tracker object after a cycle: kept when run_fetch_cycle
\* returns to its caller; when an exception reaches the caller, the caller
\* exits or builds a new tracker, which loads its state from disk
AfterCycle(outcome, kept, reloaded) == IF outcome = "returns" THEN kept ELSE reloaded

\* fetch_and_process_standards: the results of the search, then
\* process_search_results starts on them with both counters at 0
FetchNews ==
    \E n \in 1..MaxResults : \E rs \in [1..n -> Candidates] :
        /\ results = <<>>
        /\ Len(rag_docs) < MaxDocs
        /\ results' = rs
        /\ added_count' = 0
        /\ updated_count' = 0
        /\ last' = NoOp("fetch")
        /\ UNCHANGED <<rag_api, fetcher, scheduler, similarity_call, diff_call, race, store, rag_docs, rag_store>>

\* one turn of the loop of process_search_results, lines 83-109
ProcessResult ==
    /\ results # <<>>
    /\ \E info \in {ExtractedInfo[Head(results)]} :
       IF ExtractionRaises(Head(results))
       THEN /\ results' = <<>>
            /\ last' = Op("abort", info, <<>>, "fallback", "none", "none", FALSE,
                         TRUE, None, None, FALSE)
            /\ standards_index' = AfterCycle(run_fetch_cycle(TRUE), standards_index,
                                             _load_standards_index(index_file))
            /\ rag_docs' = AfterCycle(run_fetch_cycle(TRUE), rag_docs, rag_store)
            /\ UNCHANGED <<rag_api, fetcher, scheduler, similarity_call, diff_call, race, index_file, version_files, change_files, uuid, faults, rag_store, added_count, updated_count>>
       ELSE IF IsTooShort[info.content]
       THEN /\ results' = Tail(results)
            /\ last' = Op("skip", info, <<>>, "fallback", "none", "none", FALSE,
                         FALSE, None, None, FALSE)
            /\ UNCHANGED <<rag_api, fetcher, scheduler, similarity_call, diff_call, race, store, rag_docs, rag_store, added_count, updated_count>>
       ELSE
        \E ans \in Answers(standards_index, version_files, info.name, info.content) :
        \E ans2 \in IF find_similar_standard(standards_index, version_files,
                           info.name, info.content, ans) = 0
                    THEN {"fallback"} ELSE SimChoices :
        \E path \in {PathOf(standards_index, version_files, info.name, info.content, ans, ans2)} :
        \E fault \in IF faults < MaxFaults THEN FaultsOn(path) ELSE {"none"} :
        \E ragfault \in IF faults < MaxFaults /\ fault = "none" /\ rag_api
                        THEN RagFaults ELSE {"none"} :
        \E now \in IF path = "duplicate" THEN {1} ELSE Times :
        \E out \in {add_standard(standards_index, index_file, version_files,
                                 change_files, uuid, info.name, info.content,
                                 info.source_url, ans, ans2, fault, now, now, now)} :
            LET vec == IF out.raised
                       THEN [docs |-> rag_docs, persisted |-> rag_store]
                       ELSE IF out.is_new_standard
                       THEN _add_to_vector_db(rag_docs, rag_store, out.vf, rag_api,
                                out.standard_id, out.version_id, ragfault)
                       ELSE _update_in_vector_db(rag_docs, rag_store, out.vf, rag_api,
                                out.standard_id, out.version_id, ragfault)
            IN /\ uuid + 2 <= MaxCycleUuid
               /\ standards_index' = out.idx
               /\ index_file' = out.file
               /\ version_files' = out.vf
               /\ change_files' = out.cf
               /\ uuid' = out.uuid
               /\ faults' = IF fault = "none" /\ ragfault = "none" THEN faults ELSE faults + 1
               /\ added_count' = IF ~out.raised /\ out.is_new_standard
                                 THEN added_count + 1 ELSE added_count
               /\ updated_count' = IF ~out.raised /\ ~out.is_new_standard
                                   THEN updated_count + 1 ELSE updated_count
               /\ rag_docs' = vec.docs
               /\ rag_store' = vec.persisted
               /\ results' = Tail(results)
               /\ last' = AddOp("process", last, info, ans, ans2, fault, path, out)
               /\ UNCHANGED <<rag_api, fetcher, scheduler, similarity_call, diff_call, race>>

TrackerNext ==
    \/ FetchNews
    \/ ProcessResult
    \/ Restart

TrackerSpec == Init /\ [][TrackerNext]_vars

----------------------------------------------------------------------------
(* fetch_security_standards_news *)

\* two of the four general queries of config.py
GENERAL_SEARCH_QUERIES ==
    << <<"new", "cybersecurity", "standards", "updates">>,
       <<"recent", "changes", "security", "compliance", "requirements">> >>

\* f"{standard} new updates changes recent standards cybersecurity"
StandardQuery(standard) ==
    standard \o <<"new", "updates", "changes", "recent", "standards", "cybersecurity">>

\* the queries in the order the two loops issue them
Queries ==
    [i \in 1..Len(STANDARD_SOURCES) + Len(GENERAL_SEARCH_QUERIES) |->
        IF i <= Len(STANDARD_SOURCES)
        THEN StandardQuery(STANDARD_SOURCES[i])
        ELSE GENERAL_SEARCH_QUERIES[i - Len(STANDARD_SOURCES)]]

\* the results a query can find
SearchHits == {Result(<<"PCI", "DSS">>, ContentA, Url),
               Result(<<"ISO:", "PCI">>, ContentShort, Url)}

\* what web_search(query, max_results) can return
SearchReturns == UNION {[1..n -> SearchHits] : n \in 0..MaxPerQuery}

\* one web_search call: the query, whether it raised, what it returned
Search(query, raised, found) == [query |-> query, raised |-> raised, results |-> found]

\* lines 47-49 and 56-58: if results: all_results.extend(results)
Extend(all, outcome) ==
    IF outcome.raised \/ outcome.results = <<>> THEN all ELSE all \o outcome.results

\* a query that raises ends the fetch
NextQueryAbort(index, outcome) ==
    IF outcome.raised THEN Len(Queries) ELSE index + 1

\* the except clauses of lines 50-51 and 59-60 log the error and the loop
\* goes on with the next query
NextQuery(index, outcome) == index + 1

\* one turn of one of the two loops of fetch_security_standards_news
WebSearch ==
    /\ fetched = <<>>
    /\ query_index < Len(Queries)
    /\ \E raised \in BOOLEAN : \E found \in IF raised THEN {<<>>} ELSE SearchReturns :
         LET outcome == Search(Queries[query_index + 1], raised, found) IN
         /\ searches' = Append(searches, outcome)
         /\ all_results' = Extend(all_results, outcome)
         /\ query_index' = NextQuery(query_index, outcome)
    /\ UNCHANGED <<fetched, rag_api, store, tracker, last, scheduler, similarity_call, diff_call, race>>

\* line 62: return all_results
FetchReturn ==
    /\ fetched = <<>>
    /\ query_index >= Len(Queries)
    /\ fetched' = <<all_results>>
    /\ UNCHANGED <<query_index, searches, all_results>>
    /\ UNCHANGED <<rag_api, store, tracker, last, scheduler, similarity_call, diff_call, race>>

FetchNext ==
    \/ WebSearch
    \/ FetchReturn

FetchSpec == StoreInit /\ [][FetchNext]_vars

----------------------------------------------------------------------------
(* The scheduled runner: run_tracker_with_retries *)

\* the except clause goes to sleep after every failure, the last included
AfterFailureSleep(failed, max) == "sleep"

\* lines 60-67 after attempts += 1: sleep and retry, or give up
AfterFailure(failed, max) == IF failed < max THEN "sleep" ELSE "give_up"

\* run_tracker_with_retries(max_retries) is called
SchedulerInit ==
    /\ FetcherIdle
    /\ SimilarityIdle
    /\ DiffIdle
    /\ PeerIdle
    /\ StoreStart
    /\ rag_api = FALSE
    /\ max_retries \in 0..MaxRetries
    /\ attempts = 0
    /\ slept = 0
    /\ sched_pc = "while"
    /\ cycle_failed = FALSE
    /\ success = "None"

\* line 47: the test of the while loop
LoopTest ==
    /\ sched_pc = "while"
    /\ sched_pc' = IF attempts < max_retries THEN "construct" ELSE "returned"
    /\ success' = IF attempts < max_retries THEN success ELSE "None"
    /\ UNCHANGED <<max_retries, attempts, slept, cycle_failed>>
    /\ UNCHANGED <<rag_api, store, tracker, last, fetcher, similarity_call, diff_call, race>>

\* line 52: tracker = SecurityStandardsTracker(); an exception of the
\* constructor reaches the except clause of line 58
Construct ==
    /\ sched_pc = "construct"
    /\ \E raised \in BOOLEAN :
         IF raised
         THEN /\ attempts' = attempts + 1
              /\ sched_pc' = AfterFailure(attempts + 1, max_retries)
         ELSE /\ attempts' = attempts
              /\ sched_pc' = "cycle"
    /\ UNCHANGED <<max_retries, slept, cycle_failed, success>>
    /\ UNCHANGED <<rag_api, store, tracker, last, fetcher, similarity_call, diff_call, race>>

\* lines 53-56: tracker.run_fetch_cycle() and return True. run_fetch_cycle
\* catches every exception of the fetch-and-process step and only logs it
RunFetchCycle ==
    /\ sched_pc = "cycle"
    /\ cycle_failed' \in BOOLEAN
    /\ sched_pc' = "returned"
    /\ success' = "True"
    /\ UNCHANGED <<max_retries, attempts, slept>>
    /\ UNCHANGED <<rag_api, store, tracker, last, fetcher, similarity_call, diff_call, race>>

\* lines 62-64: time.sleep(retry_delay), then the loop goes round
Sleep ==
    /\ sched_pc = "sleep"
    /\ slept' = slept + 1
    /\ sched_pc' = "while"
    /\ UNCHANGED <<max_retries, attempts, cycle_failed, success>>
    /\ UNCHANGED <<rag_api, store, tracker, last, fetcher, similarity_call, diff_call, race>>

\* lines 65-67: "Max retries reached. Giving up." and return False
GiveUp ==
    /\ sched_pc = "give_up"
    /\ sched_pc' = "returned"
    /\ success' = "False"
    /\ UNCHANGED <<max_retries, attempts, slept, cycle_failed>>
    /\ UNCHANGED <<rag_api, store, tracker, last, fetcher, similarity_call, diff_call, race>>

SchedulerNext ==
    \/ LoopTest
    \/ Construct
    \/ RunFetchCycle
    \/ Sleep
    \/ GiveUp

SchedulerSpec == SchedulerInit /\ [][SchedulerNext]_vars

\* the runner is not stopped from outside: a step that can be taken is taken
SchedulerFairSpec == SchedulerSpec /\ WF_vars(SchedulerNext)

----------------------------------------------------------------------------
(* Content similarity as a function of two texts *)

\* the _calculate_content_similarity of scripts/security_standards_tracker.py:
\* the cosine of the embeddings, 0.0 when the embedding call raises
scripts_calculate_content_similarity(content1, content2, choice) ==
    IF choice = "fallback" THEN <<0, 1>> ELSE <<Cosine(choice), 100>>

\* the texts compared: the contents above, a text of punctuation only and two
\* texts that differ in case and punctuation only
SimTexts == {ContentA, ContentA2, ContentShort, << <<"--">> >>,
             << <<"PCI", "DSS">> >>, << <<"pci", "dss!">> >>}

\* the two copies of StandardsVersionManager
Copies == {"core", "scripts"}

\* one _calculate_content_similarity call of either copy
ContentSimilarity ==
    /\ \E content1 \in SimTexts : \E content2 \in SimTexts :
       \E choice \in SimChoices : \E copy \in Copies :
         similarity_call' =
            <<[content1 |-> content1, content2 |-> content2,
               choice |-> choice, copy |-> copy,
               result |-> IF copy = "core"
                          THEN _calculate_content_similarity(content1, content2, choice)
                          ELSE scripts_calculate_content_similarity(content1, content2, choice)]>>
    /\ UNCHANGED <<rag_api, store, tracker, last, fetcher, scheduler, diff_call, race>>

SimilaritySpec == StoreInit /\ [][ContentSimilarity]_vars

----------------------------------------------------------------------------
(* Two managers on the same directories. Each holds the index it loaded    *)
(* when it was built; the files are shared. A call of one manager runs      *)
(* while the other is between two calls.                                    *)

\* the pair a call returned, if it returned
Returned(out) == IF out.raised THEN {} ELSE {<<out.standard_id, out.version_id>>}

\* add_standard of the first manager; no fault is met
ManagerAddStandard ==
    \E args \in Inputs :
    \E ans \in Answers(standards_index, version_files, args.name, args.content) :
    \E ans2 \in IF find_similar_standard(standards_index, version_files,
                       args.name, args.content, ans) = 0
                THEN {"fallback"} ELSE SimChoices :
    \E path \in {PathOf(standards_index, version_files, args.name, args.content, ans, ans2)} :
    \E out \in {add_standard(standards_index, index_file, version_files,
                             change_files, uuid, args.name, args.content,
                             args.source_url, ans, ans2, "none", 1, 1, 1)} :
           /\ uuid + 2 <= MaxUuid
           /\ standards_index' = out.idx
           /\ index_file' = out.file
           /\ version_files' = out.vf
           /\ change_files' = out.cf
           /\ uuid' = out.uuid
           /\ returned' = returned \cup Returned(out)
           /\ last' = AddOp("add_standard", last, args, ans, ans2, "none", path, out)
           /\ UNCHANGED <<rag_api, fetcher, scheduler, similarity_call, diff_call, tracker, faults, peer_index>>

\* add_standard of the second manager
PeerAddStandard ==
    \E args \in Inputs :
    \E ans \in Answers(peer_index, version_files, args.name, args.content) :
    \E ans2 \in IF find_similar_standard(peer_index, version_files,
                       args.name, args.content, ans) = 0
                THEN {"fallback"} ELSE SimChoices :
    \E path \in {PathOf(peer_index, version_files, args.name, args.content, ans, ans2)} :
    \E out \in {add_standard(peer_index, index_file, version_files,
                             change_files, uuid, args.name, args.content,
                             args.source_url, ans, ans2, "none", 1, 1, 1)} :
           /\ uuid + 2 <= MaxUuid
           /\ peer_index' = out.idx
           /\ index_file' = out.file
           /\ version_files' = out.vf
           /\ change_files' = out.cf
           /\ uuid' = out.uuid
           /\ returned' = returned \cup Returned(out)
           /\ last' = AddOp("peer_add_standard", last, args, ans, ans2, "none", path, out)
           /\ UNCHANGED <<rag_api, fetcher, scheduler, similarity_call, diff_call, tracker, faults, standards_index>>

\* the first process starts again: its manager loads the index file
ManagerStart ==
    /\ standards_index' = _load_standards_index(index_file)
    /\ last' = NoOp("init")
    /\ UNCHANGED <<rag_api, fetcher, scheduler, similarity_call, diff_call, tracker, index_file, version_files, change_files, uuid, faults, race>>

\* the second process starts: its manager loads the index file
PeerStart ==
    /\ peer_index' = _load_standards_index(index_file)
    /\ last' = NoOp("peer_init")
    /\ UNCHANGED <<rag_api, fetcher, scheduler, similarity_call, diff_call, tracker, store, returned>>

RaceNext ==
    \/ ManagerAddStandard
    \/ PeerAddStandard
    \/ ManagerStart
    \/ PeerStart

RaceSpec == StoreInit /\ [][RaceNext]_vars

----------------------------------------------------------------------------
(* add_standard on names and contents that meet the threshold exactly *)

ThresholdAddStandard ==
    \E args \in ThresholdInputs :
    \E ans \in Answers(standards_index, version_files, args.name, args.content) :
    \E ans2 \in IF find_similar_standard(standards_index, version_files,
                       args.name, args.content, ans) = 0
                THEN {"fallback"} ELSE SimChoices :
    \E path \in {PathOf(standards_index, version_files, args.name, args.content, ans, ans2)} :
    \E now \in IF path = "duplicate" THEN {1} ELSE Times :
    \E out \in {add_standard(standards_index, index_file, version_files,
                             change_files, uuid, args.name, args.content,
                             args.source_url, ans, ans2, "none", now, now, now)} :
           /\ uuid + 2 <= MaxUuid
           /\ standards_index' = out.idx
           /\ index_file' = out.file
           /\ version_files' = out.vf
           /\ change_files' = out.cf
           /\ uuid' = out.uuid
           /\ last' = AddOp("add_standard", last, args, ans, ans2, "none", path, out)
           /\ UNCHANGED <<rag_api, fetcher, scheduler, similarity_call, diff_call, race, tracker, faults>>

ThresholdNext ==
    \/ ThresholdAddStandard
    \/ Restart

ThresholdSpec == StoreInit /\ [][ThresholdNext]_vars

----------------------------------------------------------------------------
(* add_standard with a deterministic similarity oracle: the two similarity  *)
(* calls one add_standard call makes on the same two texts (lines 88 and     *)
(* 168) come out the same                                                    *)

\* the outcome of the call of line 168, which compares the content with the
\* latest version of the standard found, as the call of line 88 did
SameAnswer(idx, vf, name, content, ans) ==
    LET p == find_similar_standard(idx, vf, name, content, ans) IN
    IF p = 0 THEN "fallback" ELSE ans[p]

DeterministicAddStandard ==
    \E args \in Inputs :
    \E ans \in Answers(standards_index, version_files, args.name, args.content) :
    \E ans2 \in {SameAnswer(standards_index, version_files, args.name, args.content, ans)} :
    \E path \in {PathOf(standards_index, version_files, args.name, args.content, ans, ans2)} :
    \E fault \in IF faults < MaxFaults THEN FaultsOn(path) ELSE {"none"} :
    \E now \in IF path = "duplicate" THEN {1} ELSE Times :
    \E out \in {add_standard(standards_index, index_file, version_files,
                             change_files, uuid, args.name, args.content,
                             args.source_url, ans, ans2, fault, now, now, now)} :
           /\ uuid + 2 <= MaxUuid
           /\ standards_index' = out.idx
           /\ index_file' = out.file
           /\ version_files' = out.vf
           /\ change_files' = out.cf
           /\ uuid' = out.uuid
           /\ faults' = IF fault = "none" THEN faults ELSE faults + 1
           /\ last' = AddOp("add_standard", last, args, ans, ans2, fault, path, out)
           /\ UNCHANGED <<rag_api, fetcher, scheduler, similarity_call, diff_call, race, tracker>>

DeterministicNext ==
    \/ DeterministicAddStandard
    \/ Restart

DeterministicSpec == StoreInit /\ [][DeterministicNext]_vars

----------------------------------------------------------------------------
(* A manager built on an index file that cannot be decoded *)

\* the version file of the run before: add_standard("ISO", ContentA, Url) on
\* the empty store wrote it as version 2 of standard 1
EarlierVersion ==
    [valid |-> TRUE, version_id |-> 2, standard_id |-> 1,
     standard_name |-> <<"ISO">>, version_date |-> 1, content |-> ContentA,
     source_url |-> Url]

\* the store as that run left it when its index write was interrupted, and
\* a new process on it: the manager loads the index file, the faults of the
\* new run are counted from 0
RecoveryInit ==
    /\ FetcherIdle
    /\ SchedulerIdle
    /\ SimilarityIdle
    /\ DiffIdle
    /\ PeerIdle
    /\ rag_api = FALSE
    /\ index_file = [status |-> "corrupt", data |-> EmptyIndex]
    /\ standards_index = _load_standards_index(index_file)
    /\ version_files = Put(<<>>, 2, EarlierVersion)
    /\ change_files = <<>>
    /\ uuid = 2
    /\ faults = 0
    /\ rag_docs = <<>>
    /\ rag_store = <<>>
    /\ results = <<>>
    /\ added_count = 0
    /\ updated_count = 0
    /\ last = NoOp("init")

RecoverySpec == RecoveryInit /\ [][StoreNext]_vars

----------------------------------------------------------------------------
(* The change summary as a function of two texts *)

LineA == <<"A50", "B49">>
LineB == <<"extra.">>
LineC == <<"PCI", "DSS">>
Blank == <<>>          \* a line that line.strip() leaves empty

\* the texts compared: the empty text, texts with lines repeated, reordered,
\* with blank lines added, with nothing in common, and one of seven lines
DiffTexts == {<<>>,
              <<Blank>>,
              <<LineA>>,
              <<LineA, LineA>>,
              <<LineA, LineB>>,
              <<LineB, LineA>>,
              <<LineA, Blank, LineB>>,
              <<LineA, LineB, Blank>>,
              <<LineC>>,
              <<LineA, LineC>>,
              <<LineA, LineB, LineC, <<"ISO">>, <<"PCI">>, <<"DSS">>, <<"pci">> >>}

\* one _generate_changes_summary(old_content, new_content) call
GenerateChangesSummary ==
    /\ \E old_content \in DiffTexts : \E new_content \in DiffTexts :
         diff_call' = <<[old_content |-> old_content,
                         new_content |-> new_content,
                         changes |-> _generate_changes_summary(old_content, new_content)]>>
    /\ UNCHANGED <<rag_api, store, tracker, last, fetcher, scheduler, similarity_call, race>>

DiffSpec == StoreInit /\ [][GenerateChangesSummary]_vars

----------------------------------------------------------------------------
(* Claims about add_standard. A step that changes last to an add_standard   *)
(* record is one add_standard call: the unprimed variables are the store     *)
(* before the call, the primed ones the store after it.                      *)

\* the change records on disk that link previous_version_id to new_version_id
ChangesLinking(cf, previous_version_id, new_version_id) ==
    {c \in DOMAIN cf : /\ cf[c].valid
                       /\ cf[c].previous_version_id = previous_version_id
                       /\ cf[c].new_version_id = new_version_id}

\* C1's case: the standard at position p has the name passed in, it is the
\* first standard the call consults, and the similarity of the content to
\* its latest version came out at or below the threshold
C1_Case(p) ==
    /\ standards_index[p].name = last'.name
    /\ NameMatches(standards_index, p, last'.name)
    /\ \A j \in 1..(p - 1) : ~NameMatches(standards_index, j, last'.name)
    /\ LET latest_version == get_latest_version(standards_index, version_files,
                                                standards_index[p].id) IN
       /\ latest_version # <<>>
       /\ ~ContentAbove[last'.content][latest_version[1].content][last'.ans[p]]

C1_Result(p) ==
    /\ ~last'.raised
    /\ last'.standard_id = standards_index[p].id
    /\ ~last'.is_new_standard
    /\ last'.version_id # standards_index[p].latest_version
    /\ last'.version_id \notin DOMAIN version_files
    /\ Len(standards_index') = Len(standards_index)
    /\ standards_index'[p].versions =
          Append(standards_index[p].versions, last'.version_id)
    /\ Cardinality(ChangesLinking(change_files', standards_index[p].latest_version,
                                  last'.version_id)) = 1

\* C1: add_standard with the name of an existing standard S and a content
\* whose similarity to S's latest version is below the threshold returns S's
\* id, a fresh version id and is_new_standard=False, S has one more version
\* and exactly one change record links the old latest version to the new one.
C1_NewVersionBelowThreshold ==
    [][(last'.op = "add_standard" /\ last'.fault = "none")
        => \A p \in 1..Len(standards_index) : C1_Case(p) => C1_Result(p)]_vars

\* C2's step: add_standard called again with the name and content of the
\* call before it, which returned
C2_Step ==
    /\ last.op = "add_standard"
    /\ ~last.raised
    /\ last'.op = "add_standard"
    /\ last'.name = last.name
    /\ last'.content = last.content
    /\ last'.fault = "none"

\* the similarity calls of the second call answer as those of the first did
\* on the standards the first call left as they were, and put the content
\* above the threshold against itself
C2_Oracle ==
    LET p == PosOf(standards_index, last.standard_id) IN
    /\ \A i \in 1..Len(standards_index) :
         IF i = p /\ last.path # "duplicate"
         THEN ContentAbove[last.content][last.content][last'.ans[i]]
         ELSE i \in DOMAIN last.ans /\ last'.ans[i] = last.ans[i]
    /\ IF last.path = "duplicate"
       THEN last'.ans2 = last.ans2
       ELSE ContentAbove[last.content][last.content][last'.ans2]

C2_Same ==
    /\ ~last'.raised
    /\ ~last'.is_new_standard
    /\ last'.standard_id = last.standard_id
    /\ last'.version_id = last.version_id
    /\ standards_index' = standards_index
    /\ index_file' = index_file
    /\ version_files' = version_files
    /\ change_files' = change_files

\* C2 as stated: for every name and content, a second add_standard call with
\* the same name and unchanged content returns is_new_standard=False and the
\* ids of the first call and creates nothing.
C2_IdempotentEveryName ==
    [][(C2_Step /\ C2_Oracle) => C2_Same]_vars

\* C2 amended: the same, for every name that has at least one word after
\* normalisation.
C2_IdempotentNamedStandard ==
    [][(C2_Step /\ C2_Oracle /\ WordSet(last'.name) # {}) => C2_Same]_vars

C2_Witness ==
    /\ last.op = "add_standard"
    /\ last.repeat
    /\ last.path = "duplicate"
    /\ WordSet(last.name) # {}
    /\ Len(standards_index) >= 2

----------------------------------------------------------------------------
(* Claims about the store as a whole *)

\* the change records on disk of a standard
ChangesOf(standard_id) ==
    {c \in DOMAIN change_files : /\ change_files[c].valid
                                 /\ change_files[c].standard_id = standard_id}

C4_Standard(p) ==
    LET versions == standards_index[p].versions IN
    /\ Cardinality(ChangesOf(standards_index[p].id)) = Len(versions) - 1
    /\ \A i \in 2..Len(versions) :
         LET linking == ChangesLinking(change_files, versions[i - 1], versions[i]) IN
         /\ Cardinality(linking) = 1
         /\ ~get_version_changes_may_raise(change_files, versions[i])
         /\ get_version_changes_results(change_files, versions[i])
               = {<<change_files[c]>> : c \in linking}
    /\ ~get_version_changes_may_raise(change_files, versions[1])
    /\ get_version_changes_results(change_files, versions[1]) = {<<>>}

\* C4: after any sequence of add_standard calls a standard with k versions
\* has exactly k-1 change records, one per pair of consecutive versions of
\* its version list; get_version_changes returns that record for every
\* version but the first and None for the first.
C4_OneChangePerTransition ==
    \A p \in 1..Len(standards_index) :
        standards_index[p].versions # <<>> => C4_Standard(p)

Reverse(s) == [i \in 1..Len(s) |-> s[Len(s) + 1 - i]]

\* the versions of the standard at position p, in the order of addition
Added(p) == LoadVersions(version_files, standards_index[p].versions)

\* what get_standard_versions returns for the standard at position p
Listed(p) == get_standard_versions(standards_index, version_files, standards_index[p].id)

\* what get_latest_version returns for the standard at position p
Latest(p) == get_latest_version(standards_index, version_files, standards_index[p].id)

\* the clock gave every version of the standard a later date than the one before
DatesIncrease(p) ==
    \A i \in 1..Len(Added(p)) - 1 : Added(p)[i].version_date < Added(p)[i + 1].version_date

\* position of a version in the order of addition
AddedAt(p, version) == CHOOSE i \in 1..Len(Added(p)) : Added(p)[i] = version

\* C5 as stated: get_latest_version returns the version added last and
\* get_standard_versions the versions in the reverse of the order of
\* addition, so its first element is the latest version, whatever dates the
\* clock gave.
C5_NewestFirstWhateverClock ==
    \A p \in 1..Len(standards_index) :
        standards_index[p].versions # <<>> =>
            /\ Latest(p) = <<Added(p)[Len(Added(p))]>>
            /\ Listed(p) = Reverse(Added(p))
            /\ <<Head(Listed(p))>> = Latest(p)

\* C5 amended: get_latest_version returns the version added last;
\* get_standard_versions returns the same versions by version_date
\* descending, versions of equal date in the order of addition; when every
\* version has a later date than the one before, that is the reverse of the
\* order of addition and its first element is the latest version.
C5_NewestFirstByDate ==
    \A p \in 1..Len(standards_index) :
        standards_index[p].versions # <<>> =>
            /\ Latest(p) = <<Added(p)[Len(Added(p))]>>
            /\ Len(Listed(p)) = Len(Added(p))
            /\ {Listed(p)[i] : i \in 1..Len(Listed(p))}
                  = {Added(p)[i] : i \in 1..Len(Added(p))}
            /\ \A i \in 1..Len(Listed(p)) - 1 :
                  \/ Listed(p)[i].version_date > Listed(p)[i + 1].version_date
                  \/ /\ Listed(p)[i].version_date = Listed(p)[i + 1].version_date
                     /\ AddedAt(p, Listed(p)[i]) < AddedAt(p, Listed(p)[i + 1])
            /\ DatesIncrease(p) =>
                  /\ Listed(p) = Reverse(Added(p))
                  /\ <<Head(Listed(p))>> = Latest(p)

C5_Witness ==
    \E p \in 1..Len(standards_index) :
        /\ Len(standards_index[p].versions) >= 2
        /\ DatesIncrease(p)
        /\ Listed(p) = Reverse(Added(p))

\* C6: whenever an add_standard call returns, the index file holds the
\* in-memory index, whatever add_standard calls came before, failed ones
\* included.
C6_IndexFlushedOnReturn ==
    (last.op = "add_standard" /\ ~last.raised)
        => (index_file.status = "ok" /\ index_file.data = standards_index)

\* every version id listed in the persisted index has its version file
C7_ListedOnDisk ==
    LET persisted == _load_standards_index(index_file) IN
    \A p \in 1..Len(persisted) : \A i \in 1..Len(persisted[p].versions) :
        /\ persisted[p].versions[i] \in DOMAIN version_files
        /\ version_files[persisted[p].versions[i]].valid

\* a version file once written is what get_version returns from then on
C7_FileKept ==
    \A v \in DOMAIN version_files :
        version_files[v].valid =>
            get_version(version_files', v) = get_version(version_files, v)

\* C7: a crash inside add_standard loses no version file: at every instant
\* every version id listed in the persisted index has its version file on
\* disk, and a version file written before the crash is returned by
\* get_version after the restart even if the index does not list it.
C7_NoVersionFileLost == []C7_ListedOnDisk /\ [][C7_FileKept]_vars

\* after a crash and a restart: a version file the persisted index does not list
C7_Witness ==
    /\ last.op = "init"
    /\ faults > 0
    /\ \E v \in DOMAIN version_files :
         /\ get_version(version_files, v) # <<>>
         /\ version_files[v].valid
         /\ \A p \in 1..Len(_load_standards_index(index_file)) :
              \A i \in 1..Len(_load_standards_index(index_file)[p].versions) :
                 _load_standards_index(index_file)[p].versions[i] # v

\* every standard of old is in new under its name, its version list a prefix
C8_Extends(old, new) ==
    \A p \in 1..Len(old) : \E q \in 1..Len(new) :
        /\ new[q].id = old[p].id
        /\ new[q].name = old[p].name
        /\ Len(new[q].versions) >= Len(old[p].versions)
        /\ SubSeq(new[q].versions, 1, Len(old[p].versions)) = old[p].versions

\* C8: the store is append-only over add_standard calls and
\* re-instantiations on the same directories: a standard once in the index
\* is never removed nor renamed, its version list only grows at the end, and
\* the record of an existing version is never rewritten.
C8_AppendOnly ==
    [][/\ C8_Extends(_load_standards_index(index_file),
                     _load_standards_index(index_file'))
       /\ \A v \in DOMAIN version_files :
             version_files[v].valid =>
                 v \in DOMAIN version_files' /\ version_files'[v] = version_files[v]]_vars

\* ids no add_standard call has produced
UnknownIds == {id \in 1..MaxUuid + 1 : id > uuid}

\* C9: for an unknown id get_standard_versions returns the empty list and
\* get_latest_version, get_version and get_version_changes return None;
\* none of them raises.
C9_UnknownIdNotFound ==
    \A id \in UnknownIds :
        /\ ~get_standard_versions_raises(standards_index, version_files, id)
        /\ get_standard_versions(standards_index, version_files, id) = <<>>
        /\ ~get_latest_version_raises(standards_index, version_files, id)
        /\ get_latest_version(standards_index, version_files, id) = <<>>
        /\ ~get_version_raises(version_files, id)
        /\ get_version(version_files, id) = <<>>
        /\ ~get_version_changes_may_raise(change_files, id)
        /\ get_version_changes_results(change_files, id) = {<<>>}

\* the manager is built on an index file that cannot be decoded
C18_Construction ==
    (index_file.status = "corrupt" /\ last'.op = "init")
        => /\ standards_index' = EmptyIndex
           /\ get_all_standards(standards_index', version_files') = <<>>
           /\ \A id \in 1..MaxUuid :
                /\ ~get_standard_versions_raises(standards_index', version_files', id)
                /\ get_standard_versions(standards_index', version_files', id) = <<>>
                /\ ~get_latest_version_raises(standards_index', version_files', id)
                /\ get_latest_version(standards_index', version_files', id) = <<>>

\* the first add_standard call of a manager built on such a file
C18_FirstCall ==
    (/\ index_file.status = "corrupt"
     /\ last.op = "init"
     /\ last'.op = "add_standard"
     /\ last'.fault = "none")
        => /\ ~last'.raised
           /\ last'.is_new_standard
           /\ Len(standards_index') = 1
           /\ standards_index'[1].id = last'.standard_id
           /\ standards_index'[1].versions = <<last'.version_id>>
           /\ get_latest_version(standards_index', version_files', last'.standard_id)
                 = get_version(version_files', last'.version_id)
           /\ index_file' = [status |-> "ok", data |-> standards_index']

Passing(name, content, ans) ==
    {i \in 1..Len(standards_index) :
        /\ NameAbove[name][standards_index[i].name]
        /\ Latest(i) # <<>>
        /\ ContentAbove[content][Latest(i)[1].content][ans[i]]}

\* similarity a is higher than similarity b
Higher(a, b) == a[1] * b[2] > b[1] * a[2]

\* when several standards pass, the first in index order is found; it is
\* the one created first
C19_FirstInIndexOrder ==
    Len(standards_index) > 1 =>
    \A args \in Inputs : \A ans \in [1..Len(standards_index) -> SimChoices] :
        LET passing == Passing(args.name, args.content, ans)
            p == find_similar_standard(standards_index, version_files,
                                       args.name, args.content, ans)
        IN Cardinality(passing) > 1 =>
              /\ p \in passing
              /\ \A q \in passing \ {p} :
                    p < q /\ standards_index[p].id < standards_index[q].id

\* a manager that reloads the index it saved finds the same standard
C19_SameAfterReload ==
    (/\ last'.op = "init"
     /\ Len(standards_index) > 1
     /\ index_file = [status |-> "ok", data |-> standards_index])
        => \A args \in Inputs : \A ans \in [1..Len(standards_index) -> SimChoices] :
              LET p == find_similar_standard(standards_index, version_files,
                                             args.name, args.content, ans)
                  q == find_similar_standard(standards_index', version_files',
                                             args.name, args.content, ans)
              IN /\ (p = 0) = (q = 0)
                 /\ p # 0 => standards_index'[q].id = standards_index[p].id

----------------------------------------------------------------------------
(* Claims about the fetch cycle *)

HasDocument(docs, standard_id, version_id, content) ==
    \E i \in 1..Len(docs) :
        /\ docs[i].standard_id = standard_id
        /\ docs[i].version_id = version_id
        /\ docs[i].text = content

\* C11: when add_standard returns is_new_standard=True in a fetch cycle, a
\* document with the version's content, standard_id and version_id is
\* inserted into the vector index and the index is then persisted.
C11_VectorIndexMirrors ==
    [][(/\ last'.op = "process"
        /\ ~last'.raised
        /\ last'.is_new_standard)
       => /\ HasDocument(rag_docs', last'.standard_id, last'.version_id, last'.content)
          /\ HasDocument(rag_store', last'.standard_id, last'.version_id, last'.content)]_vars

\* C12: whatever exception the processing of one candidate raises (info
\* extraction, length check, add_standard, vector-index write),
\* process_search_results catches it and goes on with the later candidates
\* of the list.
C12_BadCandidateSkipped ==
    [][(/\ results # <<>>
        /\ last'.op \in {"process", "skip", "abort"})
       => results' = Tail(results)]_vars

C15_OneCallPerResult ==
    [][(/\ results # <<>>
        /\ last'.op \in {"process", "skip", "abort"})
       => /\ last'.op = "process"
          /\ ~last'.raised
          /\ added_count' + updated_count' = added_count + updated_count + 1
          /\ last'.is_new_standard => added_count' = added_count + 1
          /\ ~last'.is_new_standard => updated_count' = updated_count + 1]_vars

----------------------------------------------------------------------------
(* Claims about fetch_security_standards_news *)

\* the results of the searches of a log that succeeded, in the order of the log
RECURSIVE Succeeded(_)
Succeeded(log) ==
    IF log = <<>> THEN <<>>
    ELSE Succeeded(SubSeq(log, 1, Len(log) - 1))
           \o (IF log[Len(log)].raised THEN <<>> ELSE log[Len(log)].results)

----------------------------------------------------------------------------
(* Claims about the scheduled runner *)

\* C16: a fetch cycle that fails as a whole (an exception escaping the
\* fetch-and-process step) reaches the scheduler as a failure: the attempt
\* is counted as failed and the run is not reported as successful.
C16_CycleFailureSurfaces ==
    (sched_pc = "returned" /\ cycle_failed)
        => (attempts >= 1 /\ success # "True")

\* the attempts made so far: those that raised and the one that did not
Tries == attempts + (IF sched_pc = "cycle" \/ success = "True" THEN 1 ELSE 0)

C17_Bounded ==
    max_retries >= 1 =>
        /\ Tries <= max_retries
        /\ sched_pc = "returned" => success \in {"True", "False"}
        /\ success = "True" => (attempts < max_retries /\ slept = attempts)
        /\ success = "False" => (attempts = max_retries /\ slept = max_retries - 1)

\* the attempt that completes without an exception returns True at once
C17_FirstSuccessReturns ==
    sched_pc = "cycle" =>
        (sched_pc' = "returned" /\ success' = "True" /\ attempts' = attempts /\ slept' = slept)

\* C17: run_tracker_with_retries(max_retries >= 1) terminates after at most
\* max_retries attempts: it returns True at the first attempt that raises
\* nothing, and False after exactly max_retries attempts that all raised,
\* sleeping between attempts only and not after the last one.
C17_RetriesTerminate ==
    /\ []C17_Bounded
    /\ [][C17_FirstSuccessReturns]_vars
    /\ <>(sched_pc = "returned")

\* three attempts raised and the runner gave up
C17_Witness ==
    /\ sched_pc = "returned"
    /\ success = "False"
    /\ max_retries = 3
    /\ slept = 2

----------------------------------------------------------------------------
(* Claims about content similarity *)

\* C20: when the embedding path is absent or fails, content similarity is
\* the Jaccard ratio of the two normalized token sets, 0.0 when either set
\* is empty; it lies in [0, 1] and is 1 exactly when the two token sets are
\* equal and non-empty.
C20_FallbackIsJaccard ==
    (similarity_call # <<>> /\ similarity_call[1].choice = "fallback") =>
        LET call == similarity_call[1]
            A == TextWordSet(call.content1)
            B == TextWordSet(call.content2)
        IN /\ call.result[2] > 0
           /\ 0 <= call.result[1] /\ call.result[1] <= call.result[2]
           /\ (A = {} \/ B = {}) => call.result[1] = 0
           /\ (A # {} /\ B # {}) =>
                call.result[1] * Cardinality(A \cup B)
                    = Cardinality(A \cap B) * call.result[2]
           /\ (call.result[1] = call.result[2]) <=> (A = B /\ A # {})

----------------------------------------------------------------------------
(* Claims about the change summary *)

\* some non-blank line of text b is not a line of text a
HasLineNotIn(a, b) ==
    \E i \in 1..Len(b) : b[i] # <<>> /\ \A j \in 1..Len(a) : a[j] # b[i]

\* the types of the items of a summary, in order
Types(changes) == [i \in 1..Len(changes) |-> changes[i].type]

\* C21: the diff summarizer returns one or two items for any pair of texts:
\* an 'addition' item if and only if some non-blank line of the new text is
\* not a line of the old text, then a 'removal' item if and only if some
\* non-blank line of the old text is not a line of the new text, and a
\* single 'modification' item with empty content if and only if neither
\* holds (identical texts, reordered lines, blank-line-only changes).
C21_DiffItems ==
    diff_call # <<>> =>
        LET call == diff_call[1]
            added == HasLineNotIn(call.old_content, call.new_content)
            removed == HasLineNotIn(call.new_content, call.old_content)
        IN /\ Len(call.changes) \in {1, 2}
           /\ Types(call.changes) =
                 (IF added THEN <<"addition">> ELSE <<>>)
                 \o (IF removed THEN <<"removal">> ELSE <<>>)
                 \o (IF ~added /\ ~removed THEN <<"modification">> ELSE <<>>)
           /\ \A i \in 1..Len(call.changes) :
                 call.changes[i].type = "modification" =>
                    call.changes[i].content = <<>> /\ ~call.changes[i].ellipsis

\* two texts that differ by a blank line and the order of their lines only
C21_Witness ==
    /\ diff_call # <<>>
    /\ diff_call[1].old_content = <<LineA, LineB, Blank>>
    /\ diff_call[1].new_content = <<LineB, LineA>>
    /\ Types(diff_call[1].changes) = <<"modification">>

----------------------------------------------------------------------------
(* Claims about what add_standard returns *)

\* the version record of a call that created a version
C22_Record(s, v) ==
    LET p == PosOf(standards_index', s)
        version == get_version(version_files', v)
    IN /\ v \notin DOMAIN version_files
       /\ ~get_version_raises(version_files', v)
       /\ version # <<>>
       /\ version[1].version_id = v
       /\ version[1].standard_id = s
       /\ version[1].content = last'.content
       /\ version[1].source_url = last'.source_url
       /\ version[1].standard_name = standards_index'[p].name

\* C22: after add_standard(name, content, source_url) returns (s, v, _),
\* the index's latest version of s is v in every branch (new standard, new
\* version, duplicate); and when the call created the version,
\* get_version(v) returns a record whose standard_id is s, whose content and
\* source_url are the ones passed in, and whose standard_name is the name
\* stored for s in the index.
C22_ReturnedIsLatest ==
    [][(last'.op = "add_standard" /\ ~last'.raised)
       => LET s == last'.standard_id
              v == last'.version_id
              p == PosOf(standards_index', s)
          IN /\ p # 0
             /\ standards_index'[p].latest_version = v
             /\ get_latest_version(standards_index', version_files', s)
                   = get_version(version_files', v)
             /\ last'.path # "duplicate" => C22_Record(s, v)]_vars

\* a second version of an existing standard was created and returned, with
\* no source_url given
C22_Witness ==
    /\ last.op = "add_standard"
    /\ ~last.raised
    /\ last.path = "version"
    /\ last.source_url = NoUrl
    /\ Len(standards_index[PosOf(standards_index, last.standard_id)].versions) >= 2

----------------------------------------------------------------------------
(* Claims about the size of a fetch *)

\* every query of the fetch returned the same k results
SameResults(k) ==
    /\ Len(searches) = Len(Queries)
    /\ \A i \in 1..Len(searches) :
         /\ ~searches[i].raised
         /\ Len(searches[i].results) = k
         /\ searches[i].results = searches[1].results

\* C23: when every search query returns the same k results,
\* fetch_security_standards_news returns exactly k times (number of tracked
\* standard sources) results.
C23_FetchSize ==
    \A k \in 0..MaxPerQuery :
        (fetched # <<>> /\ SameResults(k))
            => Len(fetched[1]) = k * Len(STANDARD_SOURCES)

----------------------------------------------------------------------------
(* Claims about run_fetch_cycle *)

\* an exception that left process_search_results did not leave run_fetch_cycle:
\* the tracker object is as it was and no result is kept for later
C24_Caught ==
    last'.op = "abort"
        => /\ results' = <<>>
           /\ standards_index' = standards_index
           /\ rag_docs' = rag_docs
           /\ UNCHANGED <<index_file, version_files, change_files, rag_store>>

\* the cycle after a failed one starts from the search, with both counters at 0
C24_FreshStart ==
    (last.op = "abort" /\ last'.op = "fetch")
        => /\ added_count' = 0
           /\ updated_count' = 0
           /\ UNCHANGED <<standards_index, index_file, version_files, change_files>>

\* C24: run_fetch_cycle never propagates an exception: a failure raised at
\* any stage of fetching or processing is caught and logged inside it and
\* the call returns normally, keeping no partial-resume state for the next
\* run.
C24_CycleNeverRaises == [][C24_Caught]_vars /\ [][C24_FreshStart]_vars

\* a cycle failed on a malformed result after a candidate before it had
\* changed the in-memory index
C24_Witness ==
    /\ last.op = "abort"
    /\ results = <<>>
    /\ standards_index # _load_standards_index(index_file)

----------------------------------------------------------------------------
(* Claims about two managers on one store *)

\* the index idx lists version v under standard s
ListedIn(idx, s, v) ==
    \E p \in 1..Len(idx) :
        idx[p].id = s /\ \E i \in 1..Len(idx[p].versions) : idx[p].versions[i] = v

\* the in-memory index of the manager that made the call of last
WriterIndex(op, mine, peer) == IF op = "add_standard" THEN mine ELSE peer

\* a call that wrote the index file wrote the whole in-memory index of its
\* manager over it: what the other manager had added since is gone from the
\* file, and no version file is touched
C25_WholeIndexRewritten ==
    (/\ last'.op \in {"add_standard", "peer_add_standard"}
     /\ uuid' > uuid)
        => LET written == WriterIndex(last'.op, standards_index', peer_index') IN
           /\ index_file' = [status |-> "ok", data |-> written]
           /\ \A pair \in returned :
                ListedIn(_load_standards_index(index_file'), pair[1], pair[2])
                    <=> ListedIn(written, pair[1], pair[2])
           /\ \A pair \in returned' :
                /\ pair[2] \in DOMAIN version_files'
                /\ version_files'[pair[2]].valid

\* C25: concurrent invocations race on the index read-modify-write: with two
\* tracker processes on the same store, each loading the index into memory
\* at start and rewriting the whole index file in add_standard, there is an
\* interleaving after which a standard or version that one process's
\* add_standard returned successfully is missing from the persisted index
\* (lost update) while its version file is still on disk.
C25_IndexRace == [][C25_WholeIndexRewritten]_vars

\* the lost update: a returned version the persisted index does not list,
\* its version file on disk
C25_Witness ==
    /\ index_file.status = "ok"
    /\ \E pair \in returned :
         /\ ~ListedIn(_load_standards_index(index_file), pair[1], pair[2])
         /\ get_version(version_files, pair[2]) # <<>>
         /\ version_files[pair[2]].valid
         /\ version_files[pair[2]].standard_id = pair[1]

----------------------------------------------------------------------------
(* Claims about the comparison with the threshold *)

\* similarity sim is exactly the threshold
AtThreshold(sim) == sim[1] * 100 = sim[2] * similarity_threshold

\* the name of standard p is at the threshold from the name passed in
NameAtThreshold(p, name) ==
    AtThreshold(_calculate_name_similarity(name, standards_index[p].name))

\* the latest content of standard p is at the threshold from the content
\* passed in, the similarity call having come out as choice
ContentAtThreshold(p, content, choice) ==
    /\ Latest(p) # <<>>
    /\ AtThreshold(_calculate_content_similarity(content, Latest(p)[1].content, choice))

\* C26: matching is by strict comparison with the threshold: an existing
\* standard whose name similarity to the incoming name, or whose
\* latest-content similarity to the incoming content, equals the threshold
\* exactly (e.g. a name Jaccard of 3/4 with threshold 0.75) is not a match,
\* and add_standard creates a new standard for the item.
C26_StrictThreshold ==
    [][(last'.op = "add_standard" /\ ~last'.raised)
       => LET at == {p \in 1..Len(standards_index) :
                        \/ NameAtThreshold(p, last'.name)
                        \/ ContentAtThreshold(p, last'.content, last'.ans[p])}
          IN /\ \A p \in at : last'.standard_id # standards_index[p].id
             /\ (at # {} /\ at = 1..Len(standards_index)) =>
                   /\ last'.is_new_standard
                   /\ Len(standards_index') = Len(standards_index) + 1
                   /\ standards_index'[Len(standards_index')].id = last'.standard_id]_vars

\* a third standard was created for an item whose name is at 3/4 from the
\* name of one standard and whose content is at 3/4 from the latest content
\* of another of the same name
C26_Witness ==
    /\ last.op = "add_standard"
    /\ last.is_new_standard
    /\ Len(standards_index) = 3
    /\ standards_index[3].id = last.standard_id
    /\ \E p \in 1..2 : \E q \in 1..2 :
         /\ NameAtThreshold(p, last.name)
         /\ standards_index[q].name = last.name
         /\ ContentAtThreshold(q, last.content, "fallback")

----------------------------------------------------------------------------
(* Claims about the shape of the index *)

\* every standard of idx has versions, the last of them its latest version,
\* and no version id is listed twice
WellFormed(idx) ==
    /\ \A p \in 1..Len(idx) :
         /\ idx[p].versions # <<>>
         /\ idx[p].latest_version = idx[p].versions[Len(idx[p].versions)]
    /\ \A p \in 1..Len(idx) : \A q \in 1..Len(idx) :
         \A i \in 1..Len(idx[p].versions) : \A j \in 1..Len(idx[q].versions) :
            idx[p].versions[i] = idx[q].versions[j] => (p = q /\ i = j)

\* C27: after any sequence of add_standard calls, including calls that
\* failed with an exception, every standard in the index (in memory and
\* persisted) has a non-empty version list whose last element is its
\* latest_version pointer, and every version id appears in the list of
\* exactly one standard.
C27_IndexWellFormed ==
    /\ WellFormed(standards_index)
    /\ WellFormed(_load_standards_index(index_file))

----------------------------------------------------------------------------
(* Claims about the new-version branch *)

\* C28: with a deterministic similarity oracle and the single configured
\* threshold, add_standard never adds a second version to an existing
\* standard: a standard is matched only when the content similarity to its
\* latest version is above the threshold, which is exactly the condition
\* for treating the item as a duplicate, so in every reachable state each
\* standard has exactly one version and no change record exists.
C28_OneVersionEach ==
    /\ \A p \in 1..Len(standards_index) : Len(standards_index[p].versions) = 1
    /\ change_files = <<>>

----------------------------------------------------------------------------
(* Claims about failed calls *)

\* C29: add_standard is all-or-nothing on failure: if the call raises (for
\* example writing the version file or the change record fails), the
\* in-memory index and the persisted index are exactly as they were before
\* the call, so later add_standard and getter calls observe no partial
\* effect of the failed call.
C29_AllOrNothing ==
    [][(last'.op = "add_standard" /\ last'.raised /\ uuid' > uuid)
       => /\ standards_index' = standards_index
          /\ index_file' = index_file
          /\ get_all_standards(standards_index', version_files')
                = get_all_standards(standards_index, version_files)]_vars

----------------------------------------------------------------------------
(* Claims about recovery from an unreadable index file *)

\* C30: if the index file is unreadable when the manager is constructed,
\* the first successful add_standard afterwards rewrites the index file so
\* that it holds only the newly added standard: the standards recorded
\* before are no longer returned by get_all_standards, while their version
\* files stay on disk and are still returned by get_version.
C30_IndexRestartsFromNew ==
    [][(/\ index_file.status = "corrupt"
        /\ last'.op = "add_standard"
        /\ ~last'.raised)
       => /\ index_file'.status = "ok"
          /\ Len(index_file'.data) = 1
          /\ index_file'.data[1].id = last'.standard_id
          /\ index_file'.data[1].versions = <<last'.version_id>>
          /\ Len(get_all_standards(standards_index', version_files')) = 1
          /\ get_all_standards(standards_index', version_files')[1].id = last'.standard_id
          /\ \A v \in DOMAIN version_files :
                version_files[v].valid =>
                    get_version(version_files', v) = <<version_files[v]>>]_vars

====
